---- MODULE Spec2Model ----
(***************************************************************************)
(* bulkdns: bulk resolution of NS records (src/bulkdns.go).                *)
(*                                                                         *)
(* The model follows main, initResolvers, slowResolv, fastResolv, resolv   *)
(* and resolv2 statement by statement.  The main goroutine's position is   *)
(* mpc; every invocation of resolv (a goroutine started by fastResolv, or  *)
(* a synchronous call made by slowResolv) is one record of calls, with its *)
(* own position.  Standard output is the sequence of writes made to it:    *)
(* one fmt.Printf / fmt.Println call is one write.                         *)
(*                                                                         *)
(* src/unnamed/part_000 is the same program with the pool named servers.   *)
(* src/unnamed/part_001 is an earlier form without -f and slowResolv, in   *)
(* which resolv itself receives from threads and calls wg.Done(), both     *)
(* deferred: the same operations in the same order as resolv2 here.        *)
(***************************************************************************)
EXTENDS Naturals, Integers, Sequences, FiniteSets

\* ------------------------------------------------------------------ bounds

\* most lines in the domain list file
MaxDomains == 2
\* largest value given to -c / --concurrent
MaxConcurrent == 2
\* most servers listed in /etc/resolv.conf
MaxResolvers == 2
\* most records in the answer section of a response
MaxAnswers == 1

\* records in one answer section of the answer-section specification SpecNS
MaxAnswersNS == 3

\* runs of the program, one after the other, in the specification SpecRuns
MaxRuns == 2

\* ------------------------------------------------------- program constants

\* dns.RcodeSuccess
RcodeSuccess == 0
\* os.Exit(1): bad usage, or /etc/resolv.conf unreadable
ExitUsage == 1
\* os.Exit(5): no resolver
ExitNoResolvers == 5
\* the exit status of a Go program that ends by an unrecovered panic
ExitPanic == 2
\* the exit status when main returns
ExitOk == 0

\* exitCode while the process runs, and once it has ended with status c
Running == <<>>
Exited(c) == <<c>>

\* ------------------------------------------------------------ input spaces

\* var rcode2string
rcode2string ==
    [c \in (0..10) \cup (16..23) |->
        CASE c = 0 -> "Success"
          [] c = 1 -> "Format Error"
          [] c = 2 -> "Server Failure"
          [] c = 3 -> "Name Error"
          [] c = 4 -> "Not Implementd"
          [] c = 5 -> "Refused"
          [] c = 6 -> "YXDomain"
          [] c = 7 -> "YXRrset"
          [] c = 8 -> "NXRrset"
          [] c = 9 -> "Not Auth"
          [] c = 10 -> "Not Zone"
          [] c = 16 -> "Bad Signature / Bad Version"
          [] c = 17 -> "Bad Key"
          [] c = 18 -> "Bad Time"
          [] c = 19 -> "Bad Mode"
          [] c = 20 -> "Bad Name"
          [] c = 21 -> "Bad Algorithm"
          [] c = 22 -> "Bad Trunc"
          [] c = 23 -> "Bad Cookie"]

\* rcode2string[r.Rcode]: a Go map gives the zero value, "", for a missing key
Label(c) == IF c \in DOMAIN rcode2string THEN rcode2string[c] ELSE ""

\* the response codes the modelled resolvers answer with: Success, Name Error,
\* and one code that rcode2string does not list
Rcodes == {RcodeSuccess, 3, 11}

\* resource records of an answer section: an NS record with its nameserver, or
\* a record of another type
RRs == {[rrtype |-> "NS", ns |-> "ns1"], [rrtype |-> "A", ns |-> ""]}

RECURSIVE SeqsUpTo(_, _)
SeqsUpTo(S, n) ==
    IF n = 0 THEN {<<>>}
    ELSE LET shorter == SeqsUpTo(S, n - 1)
         IN  shorter \cup {Append(s, x) : s \in {t \in shorter : Len(t) = n - 1}, x \in S}

Answers == SeqsUpTo(RRs, MaxAnswers)

\* r of client.Exchange: nil, or a message
NilMsg == [nil |-> TRUE, rcode |-> 0, answer |-> <<>>]

Msgs == {[nil |-> FALSE, rcode |-> c, answer |-> <<>>] : c \in Rcodes \ {RcodeSuccess}}
        \cup {[nil |-> FALSE, rcode |-> RcodeSuccess, answer |-> a] : a \in Answers}

\* (r, err) of client.Exchange.  An error may come with or without a message.
Responses ==
    {[err |-> TRUE, r |-> m] : m \in {NilMsg, [nil |-> FALSE, rcode |-> RcodeSuccess, answer |-> <<>>]}}
    \cup {[err |-> FALSE, r |-> m] : m \in {NilMsg} \cup Msgs}

NoResponse == [err |-> FALSE, r |-> NilMsg]

\* answer sections with two nameservers and records of another type among them
RRsNS == RRs \cup {[rrtype |-> "NS", ns |-> "ns2"]}

\* (r, err) of client.Exchange for a query that succeeds
ResponsesNS ==
    {[err |-> FALSE, r |-> [nil |-> FALSE, rcode |-> RcodeSuccess, answer |-> a]] :
        a \in SeqsUpTo(RRsNS, MaxAnswersNS)}

\* the servers of /etc/resolv.conf, in file order: n of them
ConfServers(n) == [k \in 1..n |-> [host |-> k, v6 |-> (k % 2 = 0)]]

VARIABLES
    mpc,        \* position of the main goroutine
    exitCode,   \* exit status of the process, Running while it runs
    nArg,       \* flag.NArg()
    verbose,    \* var verbose
    fast,       \* var fast
    concurrent, \* var concurrent
    resolvers,  \* var resolvers
    conf,       \* what dns.ClientConfigFromFile gave: "unread", "nil" or "read"
    f,          \* the input file: "unopened", "error" (os.Open failed), "open", "closed"
    line,       \* number of tokens scanner.Scan() has delivered
    scanErr,    \* scanner.Err() != nil
    server,     \* the local server of slowResolv / fastResolv
    wg,         \* counter of the sync.WaitGroup
    threads,    \* number of values buffered in the channel threads
    closed,     \* close(threads) was executed
    calls,      \* invocations of resolv, in launch order
    stdout,     \* writes to standard output, in order
    stderr,     \* number of lines written to standard error
    oracle,     \* the resolvers, where their answers are a function of (domain, resolver)
    earlier     \* what the earlier runs of the program did, one entry per run

vars == <<mpc, exitCode, nArg, verbose, fast, concurrent, resolvers, conf, f,
          line, scanErr, server, wg, threads, closed, calls, stdout, stderr,
          oracle, earlier>>

\* what lies outside the running process: no step of the program changes it
envVars == <<oracle, earlier>>

loopVars == <<line, scanErr, server, wg, threads, closed>>

\* ------------------------------------------------------------------- main

\* the package-level variables as declared, before main runs
Init ==
    /\ mpc = "parse"
    /\ exitCode = Running
    /\ nArg = 0
    /\ verbose = FALSE
    /\ fast = FALSE
    /\ concurrent = 0
    /\ resolvers = <<>>
    /\ conf = "unread"
    /\ f = "unopened"
    /\ line = 0
    /\ scanErr = FALSE
    /\ server = 0
    /\ wg = 0
    /\ threads = 0
    /\ closed = FALSE
    /\ calls = <<>>
    /\ stdout = <<>>
    /\ stderr = 0
    /\ oracle = <<>>
    /\ earlier = <<>>

\* flag.Parse(): -v, -f and -c take whatever the command line gives; -c is a
\* uint, so 0 is accepted
ParseFlags ==
    /\ mpc = "parse"
    /\ \E v \in BOOLEAN, fa \in BOOLEAN, c \in 0..MaxConcurrent, n \in 0..2 :
          /\ verbose' = v
          /\ fast' = fa
          /\ concurrent' = c
          /\ nArg' = n
    /\ mpc' = "usage"
    /\ UNCHANGED <<exitCode, resolvers, conf, f, loopVars, calls, stdout, stderr>>
    /\ UNCHANGED envVars

\* One write to standard output.  dom is the input position of the domain the
\* text is about (NoDomain for the texts of main and initResolvers), kind the
\* statement that wrote it, arg what the format's verbs were given besides the
\* domain, nl the number of newlines in the text, and tail whether text follows
\* the last newline.
NoDomain == 0 - 1
Write(dom, kind, arg, nl, tail) ==
    [dom |-> dom, kind |-> kind, arg |-> arg, nl |-> nl, tail |-> tail]

\* if flag.NArg() != 1 { Printf usage; os.Exit(1) }
CheckUsage ==
    /\ mpc = "usage"
    /\ IF nArg # 1
       THEN /\ stdout' = Append(stdout, Write(NoDomain, "usage", <<>>, 1, FALSE))
            /\ exitCode' = Exited(ExitUsage)
            /\ mpc' = "exited"
       ELSE /\ mpc' = "init"
            /\ UNCHANGED <<stdout, exitCode>>
    /\ UNCHANGED <<nArg, verbose, fast, concurrent, resolvers, conf, f, loopVars,
                   calls, stderr>>
    /\ UNCHANGED envVars

\* server = "[" + server + "]:53" for an address holding a colon, server + ":53"
\* otherwise
Endpoint(s) == [host |-> s.host, bracketed |-> s.v6, port |-> 53]

RECURSIVE AppendAll(_, _, _)
AppendAll(rs, servers, i) ==
    IF i > Len(servers) THEN rs
    ELSE AppendAll(Append(rs, Endpoint(servers[i])), servers, i + 1)

\* if len(resolvers) == 0
PoolEmptyNever(rs) == FALSE

PoolEmpty(rs) == Len(rs) = 0

\* initResolvers(): conf == nil exits 1; every server of the configuration is
\* appended (and announced when verbose); an empty list exits 5
InitResolvers ==
    /\ mpc = "init"
    /\ \/ /\ stdout' = Append(stdout, Write(NoDomain, "noconf", <<>>, 1, FALSE))
          /\ exitCode' = Exited(ExitUsage)
          /\ mpc' = "exited"
          /\ conf' = "nil"
          /\ UNCHANGED resolvers
       \/ \E n \in 0..MaxResolvers :
             LET rs == AppendAll(resolvers, ConfServers(n), 1)
                 found == IF verbose
                          THEN [k \in 1..n |-> Write(NoDomain, "found", <<rs[k]>>, 1, FALSE)]
                          ELSE <<>>
             IN  /\ conf' = "read"
                 /\ resolvers' = rs
                 /\ IF PoolEmpty(rs)
                    THEN /\ stdout' = (stdout \o found) \o <<Write(NoDomain, "noresolvers", <<>>, 1, FALSE)>>
                         /\ exitCode' = Exited(ExitNoResolvers)
                         /\ mpc' = "exited"
                    ELSE /\ stdout' = stdout \o found
                         /\ mpc' = "open"
                         /\ UNCHANGED exitCode
    /\ UNCHANGED <<nArg, verbose, fast, concurrent, f, loopVars, calls, stderr>>
    /\ UNCHANGED envVars

\* f, err := os.Open(flag.Arg(0)); if err != nil { panic(err) }; then fastResolv
\* or slowResolv starts: scanner := bufio.NewScanner(domains); server := 0
OpenFile ==
    /\ mpc = "open"
    /\ \/ /\ f' = "error"
          /\ exitCode' = Exited(ExitPanic)
          /\ mpc' = "exited"
       \/ /\ f' = "open"
          /\ mpc' = "scan"
          /\ UNCHANGED exitCode
    /\ UNCHANGED <<nArg, verbose, fast, concurrent, resolvers, conf, loopVars, calls, stdout,
                   stderr>>
    /\ UNCHANGED envVars

\* ------------------------------------------------- slowResolv / fastResolv

\* an invocation of resolv as it starts: goroutine tells a goroutine running
\* resolv2 from a synchronous call by slowResolv.  domain and server are the
\* argument values, fixed when the call or the go statement is executed.
NewCall(dom, srv, goroutine) ==
    [domain |-> dom, server |-> srv, goroutine |-> goroutine, pc |-> "begin",
     resp |-> NoResponse, k |-> 0, nslist |-> <<>>, outcome |-> "none", nq |-> 0]

\* scanner.Text(): the line delivered last, as its 0-indexed input position
Text == line - 1

\* the scanner moves on by one line per successful Scan
ScanNextSkips(n) == n + 2

ScanNext(n) == n + 1

\* for scanner.Scan(): the input has another line, which is delivered, or Scan
\* returns false at the end of the input or on a read error.  The domain list is
\* whatever the reader yields: its length is the number of lines delivered.
Scan ==
    /\ mpc = "scan"
    /\ \/ /\ line < MaxDomains
          /\ line' = ScanNext(line)
          /\ mpc' = IF fast THEN "add" ELSE "call"
          /\ UNCHANGED scanErr
       \/ /\ mpc' = "scanerr"
          /\ UNCHANGED <<line, scanErr>>
       \/ /\ scanErr' = TRUE
          /\ mpc' = "scanerr"
          /\ UNCHANGED line
    /\ UNCHANGED <<exitCode, nArg, verbose, fast, concurrent, resolvers, conf, f,
                   server, wg, threads, closed, calls, stdout, stderr>>
    /\ UNCHANGED envVars

\* the lines on standard error after: if err != nil { fmt.Fprintln(os.Stderr, ...) }
ReportedNever(e, n) == n

Reported(e, n) == IF e THEN n + 1 ELSE n

\* if err := scanner.Err(); err != nil { fmt.Fprintln(os.Stderr, ...) }
ReportScanErr ==
    /\ mpc = "scanerr"
    /\ stderr' = Reported(scanErr, stderr)
    /\ mpc' = IF fast THEN "wait" ELSE "fclose"
    /\ UNCHANGED <<exitCode, nArg, verbose, fast, concurrent, resolvers, conf, f,
                   loopVars, calls, stdout>>
    /\ UNCHANGED envVars

\* server = (server + 1) % len(resolvers)
NextServerStuck(s) == s

\* the next resolver chosen by how many queries are under way
NextServerByLoad(s) == (s + 1 + threads) % Len(resolvers)

NextServer(s) == (s + 1) % Len(resolvers)

\* slowResolv: resolv(scanner.Text(), resolvers[server]) is called
SlowCall ==
    /\ mpc = "call"
    /\ calls' = Append(calls, NewCall(Text, resolvers[server + 1], FALSE))
    /\ mpc' = "incall"
    /\ UNCHANGED <<exitCode, nArg, verbose, fast, concurrent, resolvers, conf, f,
                   loopVars, stdout, stderr>>
    /\ UNCHANGED envVars

\* slowResolv: resolv has returned; server = (server + 1) % len(resolvers)
SlowReturn ==
    /\ mpc = "incall"
    /\ calls[Len(calls)].pc = "ret"
    /\ calls' = [calls EXCEPT ![Len(calls)] =
                    [@ EXCEPT !.pc = "done", !.resp = NoResponse, !.k = 0, !.nslist = <<>>]]
    /\ server' = NextServer(server)
    /\ mpc' = "scan"
    /\ UNCHANGED <<exitCode, nArg, verbose, fast, concurrent, resolvers, conf, f,
                   line, scanErr, wg, threads, closed, stdout, stderr>>
    /\ UNCHANGED envVars

\* fastResolv: wg.Add(1)
WgAdd ==
    /\ mpc = "add"
    /\ wg' = wg + 1
    /\ mpc' = "send"
    /\ UNCHANGED <<exitCode, nArg, verbose, fast, concurrent, resolvers, conf, f,
                   line, scanErr, server, threads, closed, calls, stdout, stderr>>
    /\ UNCHANGED envVars

\* a send on a channel of capacity cap holding n values goes through when the
\* buffer has room.  (With capacity 0 it would need a receiver waiting; the only
\* receivers are the goroutines started after a send, so there is none.)
CanSendAlways(n, cap) == TRUE

CanSend(n, cap) == n < cap

\* fastResolv: threads <- "x", on the channel made by make(chan string, concurrent)
Send ==
    /\ mpc = "send"
    /\ CanSend(threads, concurrent)
    /\ threads' = threads + 1
    /\ mpc' = "go"
    /\ UNCHANGED <<exitCode, nArg, verbose, fast, concurrent, resolvers, conf, f,
                   line, scanErr, server, wg, closed, calls, stdout, stderr>>
    /\ UNCHANGED envVars

\* fastResolv: go resolv2(scanner.Text(), resolvers[server], &wg, threads)
Go ==
    /\ mpc = "go"
    /\ calls' = Append(calls, NewCall(Text, resolvers[server + 1], TRUE))
    /\ mpc' = "advance"
    /\ UNCHANGED <<exitCode, nArg, verbose, fast, concurrent, resolvers, conf, f,
                   loopVars, stdout, stderr>>
    /\ UNCHANGED envVars

\* fastResolv: server = (server + 1) % len(resolvers)
Advance ==
    /\ mpc = "advance"
    /\ server' = NextServer(server)
    /\ mpc' = "scan"
    /\ UNCHANGED <<exitCode, nArg, verbose, fast, concurrent, resolvers, conf, f,
                   line, scanErr, wg, threads, closed, calls, stdout, stderr>>
    /\ UNCHANGED envVars

\* wg.Wait() returns when the counter is zero
WaitReturnsAtOnce(n) == TRUE

WaitReturns(n) == n = 0

\* fastResolv: wg.Wait()
Wait ==
    /\ mpc = "wait"
    /\ WaitReturns(wg)
    /\ mpc' = "close"
    /\ UNCHANGED <<exitCode, nArg, verbose, fast, concurrent, resolvers, conf, f,
                   loopVars, calls, stdout, stderr>>
    /\ UNCHANGED envVars

\* fastResolv: close(threads), and fastResolv returns
Close ==
    /\ mpc = "close"
    /\ closed' = TRUE
    /\ mpc' = "fclose"
    /\ UNCHANGED <<exitCode, nArg, verbose, fast, concurrent, resolvers, conf, f,
                   line, scanErr, server, wg, threads, calls, stdout, stderr>>
    /\ UNCHANGED envVars

\* main: f.Close(), and main returns: the process ends with status 0, whatever
\* goroutines are left
FClose ==
    /\ mpc = "fclose"
    /\ f' = "closed"
    /\ exitCode' = Exited(ExitOk)
    /\ mpc' = "exited"
    /\ UNCHANGED <<nArg, verbose, fast, concurrent, resolvers, conf, loopVars, calls,
                   stdout, stderr>>
    /\ UNCHANGED envVars

\* ---------------------------------------------------------- resolv, resolv2
\* An invocation's steps are its operations on what it shares with the others:
\* each write to standard output, the end of the exchange, the receive from
\* threads and wg.Done().  The statements between two of them touch only the
\* invocation's locals and are taken together with the operation before them.

CallVarsUnchanged ==
    UNCHANGED <<mpc, exitCode, nArg, verbose, fast, concurrent, resolvers, conf, f,
                line, scanErr, server, closed, stderr, oracle, earlier>>

\* the checks with r == nil tested first
ClassifyNilFirst(resp) ==
    IF resp.r.nil THEN "EmptyResponse"
    ELSE IF resp.err THEN "TransportError"
    ELSE IF resp.r.rcode # RcodeSuccess THEN "ProtocolError"
    ELSE "Success"

\* the outcome resolv's checks give a result of client.Exchange, in their order:
\* err != nil, then r == nil, then r.Rcode != dns.RcodeSuccess
Classify(resp) ==
    IF resp.err THEN "TransportError"
    ELSE IF resp.r.nil THEN "EmptyResponse"
    ELSE IF resp.r.rcode # RcodeSuccess THEN "ProtocolError"
    ELSE "Success"

\* What resolv prints for a failed query, in one Printf each.  The format of the
\* first has two verbs and three arguments: fmt appends "%!(EXTRA ...)" for err
\* after the format's text, that is after its newline.
ErrorWritesNone(dom, srv, resp) == <<>>

ErrorWrites(dom, srv, resp) ==
    IF resp.err THEN <<Write(dom, "error", <<srv>>, 1, TRUE)>>
    ELSE IF resp.r.nil THEN <<Write(dom, "error", <<srv>>, 1, FALSE)>>
    ELSE <<Write(dom, "error", <<srv, resp.r.rcode, Label(resp.r.rcode)>>, 1, FALSE)>>

\* the loop ending at the first record that is not an NS record
RangeFromBreaks(answer, k, nslist, v) ==
    IF k >= Len(answer) THEN [k |-> k, nslist |-> nslist, wrote |-> FALSE]
    ELSE LET rr == answer[k + 1]
         IN  IF rr.rrtype = "NS"
             THEN [k |-> k + 1, nslist |-> Append(nslist, rr.ns), wrote |-> v]
             ELSE [k |-> Len(answer), nslist |-> nslist, wrote |-> FALSE]

\* the loop over r.Answer from 0-indexed position k on, as far as its next
\* write: the nameservers appended to nslist on the way and the position
\* reached.  Without verbose nothing is written and the loop runs to its end;
\* with verbose it stops after the first NS record, whose name is written.
RECURSIVE RangeFrom(_, _, _, _)
RangeFrom(answer, k, nslist, v) ==
    IF k >= Len(answer) THEN [k |-> k, nslist |-> nslist, wrote |-> FALSE]
    ELSE LET rr == answer[k + 1]
         IN  IF rr.rrtype = "NS"
             THEN IF v
                  THEN [k |-> k + 1, nslist |-> Append(nslist, rr.ns), wrote |-> TRUE]
                  ELSE RangeFrom(answer, k + 1, Append(nslist, rr.ns), v)
             ELSE RangeFrom(answer, k + 1, nslist, v)

\* fmt.Printf("Resolving %s using %s\n", domain, server)
AnnounceFirst(dom, srv) == Write(dom, "resolving", <<resolvers[1]>>, 1, FALSE)

Announce(dom, srv) == Write(dom, "resolving", <<srv>>, 1, FALSE)

\* resolv: if verbose { fmt.Printf("Resolving %s using %s\n", domain, server) },
\* then the query is built and client.Exchange sends it
Begin(i) ==
    /\ exitCode = Running
    /\ calls[i].pc = "begin"
    /\ stdout' = IF verbose
                 THEN Append(stdout, Announce(calls[i].domain, calls[i].server))
                 ELSE stdout
    /\ calls' = [calls EXCEPT ![i].pc = "exchange"]
    /\ UNCHANGED <<wg, threads>>
    /\ CallVarsUnchanged

\* resolv: r, _, err := client.Exchange(query, server) ends with a response, an
\* error, or the read timeout (an error), and the three checks follow.  A failure
\* is printed and resolv returns nil.  On success, verbose begins the line with
\* fmt.Printf("%-30s:", domain); without verbose the loop collects nslist and
\* resolv returns it.
ExchangeFrom(i, R) ==
    /\ exitCode = Running
    /\ calls[i].pc = "exchange"
    /\ \E resp \in R :
          LET c == calls[i]
              o == Classify(resp)
              run == RangeFrom(resp.r.answer, 0, <<>>, FALSE)
          IN  IF o # "Success"
              THEN /\ stdout' = stdout \o ErrorWrites(c.domain, c.server, resp)
                   /\ calls' = [calls EXCEPT ![i] =
                                   [@ EXCEPT !.resp = resp, !.nq = @ + 1, !.outcome = o,
                                             !.pc = "ret"]]
              ELSE IF verbose
              THEN /\ stdout' = Append(stdout, Write(c.domain, "head", <<>>, 0, TRUE))
                   /\ calls' = [calls EXCEPT ![i] =
                                   [@ EXCEPT !.resp = resp, !.nq = @ + 1, !.pc = "range"]]
              ELSE /\ calls' = [calls EXCEPT ![i] =
                                   [@ EXCEPT !.resp = resp, !.nq = @ + 1, !.k = run.k,
                                             !.nslist = run.nslist, !.outcome = o,
                                             !.pc = "ret"]]
                   /\ UNCHANGED stdout
    /\ UNCHANGED <<wg, threads>>
    /\ CallVarsUnchanged

Exchange(i) == ExchangeFrom(i, Responses)

\* resolv, verbose: the loop goes on to its next fmt.Printf(" %s", nameserver),
\* or ends: fmt.Println("") and return nslist
Range(i) ==
    /\ exitCode = Running
    /\ calls[i].pc = "range"
    /\ LET c == calls[i]
           run == RangeFrom(c.resp.r.answer, c.k, c.nslist, TRUE)
       IN  IF run.wrote
           THEN /\ stdout' = Append(stdout, Write(c.domain, "ns", <<run.nslist[Len(run.nslist)]>>, 0, TRUE))
                /\ calls' = [calls EXCEPT ![i] = [@ EXCEPT !.k = run.k, !.nslist = run.nslist]]
           ELSE /\ stdout' = Append(stdout, Write(c.domain, "end", <<>>, 1, FALSE))
                /\ calls' = [calls EXCEPT ![i] =
                                [@ EXCEPT !.k = run.k, !.outcome = "Success", !.pc = "ret"]]
    /\ UNCHANGED <<wg, threads>>
    /\ CallVarsUnchanged

\* a receive takes one value out of the buffer
RecvKeeps(n) == n

Recv(n) == n - 1

\* resolv2: _ = <-threads, which waits while the channel is empty (the channel
\* is not closed before wg.Wait() has returned)
Release(i) ==
    /\ exitCode = Running
    /\ calls[i].pc = "ret"
    /\ calls[i].goroutine
    /\ threads > 0 \/ closed
    /\ threads' = IF threads > 0 THEN Recv(threads) ELSE threads
    /\ calls' = [calls EXCEPT ![i].pc = "wgdone"]
    /\ UNCHANGED <<wg, stdout>>
    /\ CallVarsUnchanged

\* wg.Done() takes one off the counter
DoneTwice(n) == n - 2

Done(n) == n - 1

\* resolv2: wg.Done(), and the goroutine ends
WgDone(i) ==
    /\ exitCode = Running
    /\ calls[i].pc = "wgdone"
    /\ wg' = Done(wg)
    /\ calls' = [calls EXCEPT ![i] =
                    [@ EXCEPT !.pc = "done", !.resp = NoResponse, !.k = 0, !.nslist = <<>>]]
    /\ UNCHANGED <<threads, stdout>>
    /\ CallVarsUnchanged

\* ------------------------------------------------------------ specification

Next ==
    \/ ParseFlags
    \/ CheckUsage
    \/ InitResolvers
    \/ OpenFile
    \/ Scan
    \/ ReportScanErr
    \/ SlowCall
    \/ SlowReturn
    \/ WgAdd
    \/ Send
    \/ Go
    \/ Advance
    \/ Wait
    \/ Close
    \/ FClose
    \/ \E i \in 1..Len(calls) :
          \/ Begin(i)
          \/ Exchange(i)
          \/ Range(i)
          \/ Release(i)
          \/ WgDone(i)

Spec == Init /\ [][Next]_vars

\* ------------------------------------------------ one run after another

\* the pool initResolvers builds from a configuration of n servers
Pool(n) == AppendAll(<<>>, ConfServers(n), 1)

\* the answers a resolver may be bound to: an error, Name Error, or a
\* nameserver
OracleResponses ==
    {[err |-> TRUE, r |-> NilMsg],
     [err |-> FALSE, r |-> [nil |-> FALSE, rcode |-> 3, answer |-> <<>>]],
     [err |-> FALSE, r |-> [nil |-> FALSE, rcode |-> RcodeSuccess,
                            answer |-> <<[rrtype |-> "NS", ns |-> "ns1"]>>]]}

\* resolvers whose answer is a function of the domain and the resolver asked
Oracles ==
    [(0..(MaxDomains - 1)) \X {Pool(MaxResolvers)[k] : k \in 1..MaxResolvers} -> OracleResponses]

\* what initResolvers writes with -v
FoundWrites(rs) ==
    IF verbose THEN [k \in 1..Len(rs) |-> Write(NoDomain, "found", <<rs[k]>>, 1, FALSE)] ELSE <<>>

\* bulkdns [-v] [-f -c n] file, with a configuration of one or more servers,
\* as slowResolv or fastResolv starts: a state Spec reaches by ParseFlags,
\* CheckUsage, InitResolvers and OpenFile.  The resolvers are bound to one of
\* Oracles.
InitRuns ==
    /\ mpc = "scan"
    /\ exitCode = Running
    /\ nArg = 1
    /\ verbose \in BOOLEAN
    /\ fast \in BOOLEAN
    /\ concurrent \in (IF fast THEN 1..MaxConcurrent ELSE {0})
    /\ resolvers \in {Pool(n) : n \in 1..MaxResolvers}
    /\ conf = "read"
    /\ f = "open"
    /\ line = 0
    /\ scanErr = FALSE
    /\ server = 0
    /\ wg = 0
    /\ threads = 0
    /\ closed = FALSE
    /\ calls = <<>>
    /\ stdout = FoundWrites(resolvers)
    /\ stderr = 0
    /\ oracle \in Oracles
    /\ earlier = <<>>

\* client.Exchange(query, server) gets the answer this resolver has for this
\* domain
ExchangeOracle(i) == ExchangeFrom(i, {oracle[<<calls[i].domain, calls[i].server>>]})

\* what is kept of a run: for each invocation, in launch order, its domain,
\* its resolver and its outcome
RunRecord == [i \in 1..Len(calls) |->
                 [domain |-> calls[i].domain, server |-> calls[i].server,
                  outcome |-> calls[i].outcome]]

\* The process has exited with status 0 and the program is started again with
\* the same command line, the same /etc/resolv.conf and the same resolvers: a
\* new process, with every variable as declared, arrives where slowResolv or
\* fastResolv starts (server := 0).
Rerun ==
    /\ mpc = "exited"
    /\ exitCode = Exited(ExitOk)
    /\ Len(earlier) < MaxRuns - 1
    /\ earlier' = Append(earlier, RunRecord)
    /\ mpc' = "scan"
    /\ exitCode' = Running
    /\ f' = "open"
    /\ line' = 0
    /\ scanErr' = FALSE
    /\ server' = 0
    /\ wg' = 0
    /\ threads' = 0
    /\ closed' = FALSE
    /\ calls' = <<>>
    /\ stdout' = FoundWrites(resolvers)
    /\ stderr' = 0
    /\ UNCHANGED <<nArg, verbose, fast, concurrent, resolvers, conf, oracle>>

NextRuns ==
    \/ Scan
    \/ ReportScanErr
    \/ SlowCall
    \/ SlowReturn
    \/ WgAdd
    \/ Send
    \/ Go
    \/ Advance
    \/ Wait
    \/ Close
    \/ FClose
    \/ Rerun
    \/ \E i \in 1..Len(calls) :
          \/ Begin(i)
          \/ ExchangeOracle(i)
          \/ Range(i)
          \/ Release(i)
          \/ WgDone(i)

SpecRuns == InitRuns /\ [][NextRuns]_vars

\* ------------------------------------------------------------- scheduling

\* a step of the main goroutine
MainStep ==
    \/ ParseFlags
    \/ CheckUsage
    \/ InitResolvers
    \/ OpenFile
    \/ Scan
    \/ ReportScanErr
    \/ SlowCall
    \/ SlowReturn
    \/ WgAdd
    \/ Send
    \/ Go
    \/ Advance
    \/ Wait
    \/ Close
    \/ FClose

\* a step of the i-th invocation of resolv and, in fastResolv, of its goroutine
TaskStep(i) ==
    /\ i \in 1..Len(calls)
    /\ \/ Begin(i)
       \/ Exchange(i)
       \/ Range(i)
       \/ Release(i)
       \/ WgDone(i)

\* The Go scheduler runs every goroutine that can run, and client.Exchange
\* ends within its timeouts: the main goroutine and every invocation take
\* their next step when it stays possible.
FairSpec ==
    /\ Spec
    /\ WF_vars(MainStep)
    /\ \A i \in 1..MaxDomains : WF_vars(TaskStep(i))

\* ------------------------------------------- the answer section, slowResolv

\* bulkdns [-v] file with one server configured, as slowResolv starts: the
\* state Spec reaches by ParseFlags, CheckUsage, InitResolvers and OpenFile
InitNS ==
    /\ mpc = "scan"
    /\ exitCode = Running
    /\ nArg = 1
    /\ verbose \in BOOLEAN
    /\ fast = FALSE
    /\ concurrent = 0
    /\ resolvers = AppendAll(<<>>, ConfServers(1), 1)
    /\ conf = "read"
    /\ f = "open"
    /\ line = 0
    /\ scanErr = FALSE
    /\ server = 0
    /\ wg = 0
    /\ threads = 0
    /\ closed = FALSE
    /\ calls = <<>>
    /\ stdout = IF verbose THEN <<Write(NoDomain, "found", <<resolvers[1]>>, 1, FALSE)>> ELSE <<>>
    /\ stderr = 0
    /\ oracle = <<>>
    /\ earlier = <<>>

\* client.Exchange answers with code Success and any answer section
ExchangeNS(i) == ExchangeFrom(i, ResponsesNS)

NextNS ==
    \/ Scan
    \/ ReportScanErr
    \/ SlowCall
    \/ SlowReturn
    \/ FClose
    \/ \E i \in 1..Len(calls) :
          \/ Begin(i)
          \/ ExchangeNS(i)
          \/ Range(i)

SpecNS == InitNS /\ [][NextNS]_vars

\* ------------------------------------------------------------- properties

\* the invocations made so far
Launched == 1..Len(calls)

\* the goroutines that were started and have not yet received from threads
InFlight == {i \in Launched : calls[i].goroutine /\ calls[i].pc \in {"begin", "exchange", "range", "ret"}}

\* the outcomes with which resolv returns
FailedOutcomes == {"TransportError", "EmptyResponse", "ProtocolError"}
TerminalOutcomes == FailedOutcomes \cup {"Success"}

\* slowResolv or fastResolv has returned to main
Returned == mpc \in {"close", "fclose"} \/ exitCode = Exited(ExitOk)

\* the number of writes to standard output of the given kind about domain d
CountWrites(d, kind) ==
    Cardinality({p \in 1..Len(stdout) : stdout[p].dom = d /\ stdout[p].kind = kind})

\* C1: the domain at 0-indexed input position i is handed to resolv together
\* with the resolver at index i mod M of the pool, in slowResolv and, whatever
\* the interleaving, in fastResolv.
C1_RoundRobin ==
    \A i \in Launched :
        calls[i].server = resolvers[(calls[i].domain % Len(resolvers)) + 1]

\* two goroutines are querying at once, the second one for input position 1 of
\* a pool of two
C1_Witness ==
    /\ fast
    /\ Len(resolvers) = 2
    /\ Len(calls) = 2
    /\ calls[1].pc = "exchange"
    /\ calls[2].pc = "exchange"
    /\ calls[2].domain = 1

\* C2: in fastResolv the goroutines started and not yet past their receive from
\* threads are never more than concurrent; with concurrent = 1 there are never
\* two.
C2_InFlightBounded ==
    fast => Cardinality(InFlight) <= concurrent

\* with concurrent = 1 the dispatcher stands at its send while the one goroutine
\* allowed is querying
C2_Witness ==
    /\ fast
    /\ concurrent = 1
    /\ mpc = "send"
    /\ threads = 1
    /\ \E i \in InFlight : calls[i].pc = "exchange"

\* C3: every domain read is dispatched exactly once, in input order, is queried
\* at most once and has exactly one terminal outcome once resolv has returned
\* for it; when the run has returned, every domain read has its terminal
\* outcome, whatever the outcomes of the others.
C3_ExactlyOnce ==
    /\ \A i \in Launched :
          /\ calls[i].domain = i - 1
          /\ calls[i].nq <= 1
          /\ (calls[i].pc \in {"begin", "exchange"}) => (calls[i].nq = 0)
          /\ (calls[i].pc \in {"range", "ret", "wgdone", "done"}) => (calls[i].nq = 1)
          /\ (calls[i].pc \in {"ret", "wgdone", "done"}) <=> (calls[i].outcome \in TerminalOutcomes)
          /\ (calls[i].pc \in {"begin", "exchange", "range"}) <=> (calls[i].outcome = "none")
    /\ Len(calls) <= line
    /\ line <= Len(calls) + 1
    /\ (line = Len(calls) + 1) => (mpc \in {"add", "send", "go", "call"})
    /\ Returned =>
          /\ Len(calls) = line
          /\ \A i \in Launched : calls[i].pc = "done" /\ calls[i].outcome \in TerminalOutcomes

\* a run of fastResolv has returned after two domains, the first failed and the
\* second succeeded
C3_Witness ==
    /\ fast
    /\ exitCode = Exited(ExitOk)
    /\ line = 2
    /\ Len(calls) = 2
    /\ calls[1].outcome = "ProtocolError"
    /\ calls[2].outcome = "Success"

\* the status lines written for domain d: a failure line, or the line of
\* nameservers that fmt.Println("") ends
StatusLines(d) == CountWrites(d, "error") + CountWrites(d, "end")

\* C4, as claimed: every domain processed has exactly one status line on
\* standard output, with or without verbose.
C4_OneStatusLineAlways ==
    \A i \in Launched :
        (calls[i].outcome \in TerminalOutcomes) => (StatusLines(calls[i].domain) = 1)

\* C4, amended: a domain whose query failed has exactly one failure line and no
\* nameserver line, with or without verbose; a domain whose query succeeded has
\* no failure line and has its nameserver line (begun once, ended once, one
\* name per nameserver collected) exactly when verbose is set, and no line at
\* all otherwise.  No domain ever has more than one status line.
C4_StatusLines ==
    \A i \in Launched :
        LET d == calls[i].domain
        IN  /\ StatusLines(d) <= 1
            /\ (calls[i].outcome \in FailedOutcomes) =>
                  /\ CountWrites(d, "error") = 1
                  /\ CountWrites(d, "head") = 0
                  /\ CountWrites(d, "ns") = 0
                  /\ CountWrites(d, "end") = 0
            /\ (calls[i].outcome = "Success") =>
                  /\ CountWrites(d, "error") = 0
                  /\ CountWrites(d, "head") = (IF verbose THEN 1 ELSE 0)
                  /\ CountWrites(d, "end") = (IF verbose THEN 1 ELSE 0)
                  /\ (~verbose) => (CountWrites(d, "ns") = 0)
                  /\ (verbose /\ calls[i].pc \in {"ret", "wgdone"}) =>
                        (CountWrites(d, "ns") = Len(calls[i].nslist))
            /\ (calls[i].outcome = "none") => (StatusLines(d) = 0)

\* without verbose, one domain has succeeded and has no line, another has
\* failed and has its line
C4_Witness ==
    /\ ~verbose
    /\ Len(calls) = 2
    /\ calls[1].outcome = "Success"
    /\ calls[2].outcome = "TransportError"
    /\ StatusLines(0) = 0
    /\ StatusLines(1) = 1

\* C5: fastResolv does not get past wg.Wait() while a goroutine it started is
\* still querying, printing, or holding its slot.
C5_JoinBarrier ==
    (fast /\ Returned) =>
        \A i \in Launched : calls[i].pc = "done" /\ calls[i].outcome \in TerminalOutcomes

\* wg.Wait() has returned with two goroutines started
C5_Witness ==
    /\ fast
    /\ mpc = "close"
    /\ Len(calls) = 2
    /\ concurrent = 2

\* C6: the values in threads are those of the goroutines that have not yet
\* received, plus the one sent for a goroutine about to be started: every send
\* is matched by one receive whatever the outcome, and the channel is empty
\* when the run returns.
C6_AcquireRelease ==
    fast =>
        /\ threads = Cardinality(InFlight) + (IF mpc = "go" THEN 1 ELSE 0)
        /\ \A i \in Launched : (calls[i].pc \in {"wgdone", "done"}) => (calls[i].outcome \in TerminalOutcomes)
        /\ Returned => (threads = 0)

\* the run has returned after a transport error and an empty response, and
\* threads is empty
C6_Witness ==
    /\ fast
    /\ Returned
    /\ Len(calls) = 2
    /\ calls[1].outcome = "TransportError"
    /\ calls[2].outcome = "EmptyResponse"
    /\ threads = 0

\* C7, as claimed: whatever -c is given, the channel's capacity is at least 1,
\* so the dispatcher's send for a domain goes through whenever no goroutine
\* holds a slot.
C7_CapacityAtLeastOne ==
    (fast /\ mpc = "send" /\ InFlight = {}) =>
        (concurrent >= 1 /\ CanSend(threads, concurrent))

\* C8, as claimed: when the positional arguments are not exactly one, or the
\* input file cannot be opened, the process ends with exit code 1 and no query
\* was made.
C8_ExitOneNoQuery ==
    (mpc = "exited" /\ (nArg # 1 \/ f = "error")) =>
        (exitCode = Exited(ExitUsage) /\ Len(calls) = 0)

\* C9: when the resolver configuration is read and lists no server, the process
\* ends with exit code 5 with the input file never opened and no query made.
C9_NoResolversExit5 ==
    (conf = "read" /\ Len(resolvers) = 0) =>
        /\ mpc = "exited"
        /\ exitCode = Exited(ExitNoResolvers)
        /\ f = "unopened"
        /\ Len(calls) = 0
        /\ line = 0

\* the process has ended with exit code 5
C9_Witness ==
    /\ conf = "read"
    /\ Len(resolvers) = 0
    /\ exitCode = Exited(ExitNoResolvers)
    /\ stdout # <<>>

\* the writes that make up a domain's nameserver line
LineKinds == {"head", "ns", "end"}

\* C10, as claimed: the writes of one domain's result line are contiguous on
\* standard output: nothing another invocation writes falls between them.
C10_LinesWhole ==
    \A a \in 1..Len(stdout), c \in 1..Len(stdout) :
        (/\ a < c
         /\ stdout[a].kind \in LineKinds
         /\ stdout[c].kind \in LineKinds
         /\ stdout[a].dom = stdout[c].dom) =>
            \A b \in a..c : stdout[b].dom = stdout[a].dom /\ stdout[b].kind \in LineKinds

\* the outcome the claimed precedence gives a result of client.Exchange
ExpectedOutcome(resp) ==
    CASE resp.err -> "TransportError"
      [] (~resp.err) /\ resp.r.nil -> "EmptyResponse"
      [] (~resp.err) /\ (~resp.r.nil) /\ resp.r.rcode # 0 -> "ProtocolError"
      [] OTHER -> "Success"

\* the label claimed for the response codes the resolvers answer with
ExpectedLabel(c) == IF c = 3 THEN "Name Error" ELSE ""

\* the failure writes about domain d
ErrorWritesOf(d) ==
    {stdout[p] : p \in {q \in 1..Len(stdout) : stdout[q].dom = d /\ stdout[q].kind = "error"}}

\* C11: a result of the exchange is classified by precedence: an error gives
\* TransportError whatever the response object, else a missing response gives
\* EmptyResponse, else a code r # 0 gives ProtocolError with r and its label
\* printed ("Name Error" for 3, the empty text for a code rcode2string lacks);
\* a failure does not end the run: the process still ends with every domain
\* read dispatched.
C11_Classification ==
    /\ \A i \in Launched :
          (calls[i].pc \in {"ret", "wgdone"}) =>
              /\ calls[i].outcome = ExpectedOutcome(calls[i].resp)
              /\ (calls[i].outcome = "ProtocolError") =>
                    ErrorWritesOf(calls[i].domain) =
                        {Write(calls[i].domain, "error",
                               <<calls[i].server, calls[i].resp.r.rcode,
                                 ExpectedLabel(calls[i].resp.r.rcode)>>, 1, FALSE)}
              /\ (calls[i].outcome \in {"TransportError", "EmptyResponse"}) =>
                    \A w \in ErrorWritesOf(calls[i].domain) : w.arg = <<calls[i].server>>
    /\ (mpc = "exited" /\ \E i \in Launched : calls[i].outcome \in FailedOutcomes) =>
          (exitCode = Exited(ExitOk) /\ Len(calls) = line)

\* the first domain was answered with a code that has no label, and the second
\* domain's query is under way
C11_Witness ==
    /\ Len(calls) = 2
    /\ calls[1].pc = "wgdone"
    /\ calls[1].outcome = "ProtocolError"
    /\ calls[1].resp.r.rcode = 11
    /\ calls[2].pc = "exchange"

\* the nameserver fields of the NS records of an answer section, in its order
NSNames(answer) ==
    LET IsNS(rr) == rr.rrtype = "NS"
        ns == SelectSeq(answer, IsNS)
    IN  [n \in 1..Len(ns) |-> ns[n].ns]

\* the nameservers written about domain d, in the order of the writes
NsWritten(d) ==
    LET IsNsOfD(w) == w.dom = d /\ w.kind = "ns"
        ws == SelectSeq(stdout, IsNsOfD)
    IN  [n \in 1..Len(ws) |-> ws[n].arg[1]]

\* C12: the list resolv returns for a successful query is exactly the
\* nameserver fields of the answer's NS records, in answer order, records of
\* other types skipped, and empty when the answer has no NS record; with
\* verbose the nameservers printed are that same list.
C12_NsSubsequence ==
    \A i \in Launched :
        (calls[i].pc = "ret" /\ calls[i].outcome = "Success") =>
            /\ calls[i].nslist = NSNames(calls[i].resp.r.answer)
            /\ verbose => NsWritten(calls[i].domain) = calls[i].nslist

\* an answer NS ns2, A, NS ns1 gave the list ns2, ns1
C12_Witness ==
    \E i \in Launched :
        /\ calls[i].pc = "ret"
        /\ calls[i].outcome = "Success"
        /\ Len(calls[i].resp.r.answer) = 3
        /\ calls[i].resp.r.answer[2].rrtype = "A"
        /\ calls[i].nslist = <<"ns2", "ns1">>

\* the writes to standard output about domain d, in their order
WritesOf(d) ==
    LET IsOfD(w) == w.dom = d
    IN  SelectSeq(stdout, IsOfD)

\* what one invocation of resolv writes in all, for the response it got
ResolvOutput(c) ==
    (IF verbose THEN <<Write(c.domain, "resolving", <<c.server>>, 1, FALSE)>> ELSE <<>>)
    \o (IF ExpectedOutcome(c.resp) # "Success"
        THEN ErrorWrites(c.domain, c.server, c.resp)
        ELSE IF verbose
        THEN (<<Write(c.domain, "head", <<>>, 0, TRUE)>>
              \o [n \in 1..Len(NSNames(c.resp.r.answer)) |->
                     Write(c.domain, "ns", <<NSNames(c.resp.r.answer)[n]>>, 0, TRUE)])
             \o <<Write(c.domain, "end", <<>>, 1, FALSE)>>
        ELSE <<>>)

\* slowResolv runs, or fastResolv with a channel of capacity one
Serial == (~fast) \/ concurrent = 1

\* C13: fastResolv with -c 1 is observably what slowResolv is.  In both, the
\* invocations of resolv get the pairs (domain i, resolver i mod M) in input
\* order, an invocation starts only when every earlier one has returned, and
\* standard output is the outputs of the invocations one after the other in
\* input order, each being what resolv writes for its domain, resolver and
\* response.
C13_SerialEquivalence ==
    Serial =>
        /\ \A i \in Launched :
              /\ calls[i].domain = i - 1
              /\ calls[i].server = resolvers[((i - 1) % Len(resolvers)) + 1]
              /\ (i < Len(calls)) => calls[i].pc \in {"wgdone", "done"}
              /\ (calls[i].pc \in {"ret", "wgdone"}) => WritesOf(calls[i].domain) = ResolvOutput(calls[i])
        /\ \A p \in 1..Len(stdout) : \A q \in p..Len(stdout) : stdout[p].dom <= stdout[q].dom

\* fastResolv with -c 1 and -v: the second domain's line is begun while the
\* first goroutine, its output written and its slot given back, has not ended
C13_Witness ==
    /\ fast
    /\ concurrent = 1
    /\ verbose
    /\ Len(calls) = 2
    /\ calls[1].pc = "wgdone"
    /\ calls[1].outcome = "Success"
    /\ calls[2].pc = "range"

\* C15: when reading the domain list fails after k domains were dispatched, the
\* error is reported on standard error (once, and only then), no further domain
\* is dispatched, and the k queries are not cancelled: fastResolv returns only
\* when each of them has made its one query, reached a terminal outcome and
\* given back its slot.
C15_ReadError ==
    /\ scanErr =>
          /\ mpc \in {"scanerr", "wait", "close", "fclose", "exited"}
          /\ Len(calls) = line
          /\ stderr = (IF mpc = "scanerr" THEN 0 ELSE 1)
          /\ (fast /\ Returned) =>
                /\ threads = 0
                /\ \A i \in Launched :
                      /\ calls[i].pc = "done"
                      /\ calls[i].nq = 1
                      /\ calls[i].outcome \in TerminalOutcomes
    /\ (~scanErr) => stderr = 0

\* the read error is reported and fastResolv waits while the one query
\* dispatched before it is still with its resolver
C15_Witness ==
    /\ scanErr
    /\ fast
    /\ mpc = "wait"
    /\ stderr = 1
    /\ Len(calls) = 1
    /\ calls[1].pc = "exchange"

\* the number of writes about domain d that tell the result of its query
ResultWrites(d) ==
    Cardinality({p \in 1..Len(stdout) : stdout[p].dom = d /\ stdout[p].kind \in {"error", "head", "ns", "end"}})

\* the goroutine of invocation i has received from threads
Released(i) == calls[i].goroutine /\ calls[i].pc \in {"wgdone", "done"}

\* C16 as stated: a goroutine's slot is released before its outcome is
\* written, so whenever a result is on standard output for a domain, the
\* goroutine of that domain has already received from threads.
C16_ReleaseBeforeEmit ==
    \A i \in Launched :
        (calls[i].goroutine /\ ResultWrites(calls[i].domain) > 0) => Released(i)

\* C16, amended: per goroutine the order is acquire, launch, query completes,
\* outcome written, release.  While the query is not complete the slot is held
\* and nothing about the result is written; once the goroutine has received
\* from threads its query is complete, its outcome is terminal and everything
\* resolv writes about it is already on standard output.
C16_EmitBeforeRelease ==
    \A i \in Launched :
        calls[i].goroutine =>
            /\ (calls[i].pc \in {"begin", "exchange"}) =>
                  /\ calls[i].nq = 0
                  /\ calls[i].outcome = "none"
                  /\ ResultWrites(calls[i].domain) = 0
            /\ (~Released(i)) => threads >= 1
            /\ Released(i) =>
                  /\ calls[i].nq = 1
                  /\ calls[i].outcome \in TerminalOutcomes
                  /\ (calls[i].outcome \in FailedOutcomes) => CountWrites(calls[i].domain, "error") = 1
                  /\ (calls[i].outcome = "Success" /\ verbose) =>
                        (CountWrites(calls[i].domain, "head") = 1 /\ CountWrites(calls[i].domain, "end") = 1)

\* a goroutine whose failure is printed has just given back the only slot taken
C16_Witness ==
    /\ Len(calls) = 1
    /\ Released(1)
    /\ calls[1].pc = "wgdone"
    /\ calls[1].outcome = "TransportError"
    /\ CountWrites(0, "error") = 1
    /\ threads = 0

\* the dispatched domains after which the loop has already advanced server
Advances == IF mpc \in {"advance", "incall"} THEN Len(calls) - 1 ELSE Len(calls)

\* a step of the whole program, as far as server, resolvers and the arguments
\* of the invocations go: server changes only by the loop's own advance, to
\* (server + 1) mod the pool size; the pool changes only in initResolvers; an
\* invocation keeps the domain and the resolver it was started with
CursorStep ==
    /\ (server' # server) =>
          /\ mpc \in {"advance", "incall"}
          /\ mpc' = "scan"
          /\ server' = (server + 1) % Len(resolvers)
    /\ (resolvers' # resolvers) => mpc = "init"
    /\ Len(calls') >= Len(calls)
    /\ \A i \in Launched :
          /\ calls'[i].domain = calls[i].domain
          /\ calls'[i].server = calls[i].server
    /\ (mpc' = mpc) => (server' = server /\ resolvers' = resolvers)

\* C17: server, the round-robin cursor, is changed by the dispatcher loop only,
\* once per dispatched domain and to (server + 1) mod the pool size, and stays
\* within 0..poolSize-1; an invocation of resolv has its domain and resolver as
\* values fixed when it is started, and no step of an invocation changes
\* server or resolvers.
C17_CursorFrame ==
    /\ []((Len(resolvers) > 0) =>
            /\ server \in 0..(Len(resolvers) - 1)
            /\ server = Advances % Len(resolvers))
    /\ [][CursorStep]_vars

\* two goroutines run with the resolvers they were started with, the first
\* still querying, while server has gone round the pool of two back to 0
C17_Witness ==
    /\ fast
    /\ Len(resolvers) = 2
    /\ Len(calls) = 2
    /\ mpc = "scan"
    /\ server = 0
    /\ calls[1].pc = "exchange"
    /\ calls[1].server = resolvers[1]
    /\ calls[2].server = resolvers[2]

\* the positions on standard output of the writes of the given kinds about domain d
Positions(d, kinds) == {p \in 1..Len(stdout) : stdout[p].dom = d /\ stdout[p].kind \in kinds}

\* C18: with -v, "Resolving <domain> using <resolver>" is written for a domain
\* before anything of that domain's result, whatever other invocations write in
\* between, it is written once, and it names the resolver the invocation was
\* given and sends its query to (the one a failure line names as well).
C18_AnnounceFirst ==
    verbose =>
        \A i \in Launched :
            LET d == calls[i].domain
                ann == Positions(d, {"resolving"})
                res == Positions(d, {"error", "head", "ns", "end"})
            IN  /\ (calls[i].pc = "begin") => (ann = {} /\ res = {})
                /\ (calls[i].pc # "begin") =>
                      /\ Cardinality(ann) = 1
                      /\ \A p \in ann : stdout[p].arg = <<calls[i].server>>
                /\ \A q \in res : \E p \in ann : p < q
                /\ \A q \in Positions(d, {"error"}) : stdout[q].arg[1] = calls[i].server

\* with -v and two resolvers, the second domain is announced with the second
\* resolver and its failure is printed while the first domain's goroutine,
\* started earlier, has not written anything yet
C18_Witness ==
    /\ verbose
    /\ Len(resolvers) = 2
    /\ Len(calls) = 2
    /\ calls[1].pc = "begin"
    /\ calls[2].pc = "ret"
    /\ calls[2].outcome = "EmptyResponse"
    /\ \E p \in Positions(1, {"resolving"}) : stdout[p].arg = <<resolvers[2]>>

\* the goroutines that have not yet called wg.Done
NotDone == {i \in Launched : calls[i].goroutine /\ calls[i].pc # "done"}

\* C20: in fastResolv the values buffered in threads are as many as the
\* goroutines started and not yet past their receive, plus one while the
\* dispatcher has sent for a domain whose goroutine it has not started yet; so
\* a goroutine at its receive finds a value, the WaitGroup counter is never
\* negative (it counts the goroutines not yet done, plus the one added for a
\* domain not started yet), and threads is closed only when it is empty and
\* every goroutine has ended, the dispatcher sending no more.
C20_TokensAndCounter ==
    /\ threads = Cardinality(InFlight) + (IF mpc = "go" THEN 1 ELSE 0)
    /\ threads <= concurrent
    /\ \A i \in Launched : (calls[i].goroutine /\ calls[i].pc = "ret") => threads > 0
    /\ wg >= 0
    /\ wg = Cardinality(NotDone) + (IF mpc \in {"send", "go"} THEN 1 ELSE 0)
    /\ closed =>
          /\ threads = 0
          /\ NotDone = {}
          /\ mpc \in {"fclose", "exited"}

\* with -c 2 the dispatcher has sent for the second domain and not yet started
\* its goroutine, while the first goroutine has returned from resolv and is at
\* its receive
C20_Witness ==
    /\ fast
    /\ concurrent = 2
    /\ mpc = "go"
    /\ threads = 2
    /\ wg = 2
    /\ Len(calls) = 1
    /\ calls[1].pc = "ret"

\* fastResolv is running with at least one slot
FastRunning == fast /\ concurrent >= 1 /\ f = "open" /\ ~Returned

\* C19: with a pool of at least one resolver and -c at least 1, when every
\* exchange ends and the goroutines are scheduled fairly, fastResolv returns,
\* whatever the (finite) domain list: while the dispatcher waits at its send
\* or at wg.Wait(), some goroutine can take a step, and fastResolv running
\* leads to fastResolv returned.
C19_FastReturns ==
    /\ []((FastRunning /\ ((mpc = "send" /\ ~CanSend(threads, concurrent)) \/ (mpc = "wait" /\ ~WaitReturns(wg)))) =>
            (NotDone # {} /\ ENABLED (\E i \in NotDone : TaskStep(i))))
    /\ (FastRunning ~> Returned)

\* with -c 1 fastResolv has returned after two domains, the second of which
\* had to wait for the slot
C19_Witness ==
    /\ fast
    /\ concurrent = 1
    /\ Len(calls) = 2
    /\ closed
    /\ mpc = "fclose"

\* C14: two runs with the same command line, resolver pool and resolvers, whose
\* answer is a function of (domain, resolver), over the same domain list give
\* every domain the same resolver and the same outcome.  Each run starts with
\* server = 0, and within a run the outcome of a domain is the classification
\* of the answer its resolver (the one at its input position modulo the pool
\* size) has for it, whatever happened to earlier domains and in earlier runs.
C14_SameOutcomes ==
    /\ (calls = <<>>) => server = 0
    /\ \A i \in Launched :
          /\ calls[i].server = resolvers[(calls[i].domain % Len(resolvers)) + 1]
          /\ (calls[i].outcome # "none") =>
                calls[i].outcome = ExpectedOutcome(oracle[<<calls[i].domain, calls[i].server>>])
          /\ \A r \in 1..Len(earlier) : \A j \in 1..Len(earlier[r]) :
                (earlier[r][j].domain = calls[i].domain) =>
                    /\ earlier[r][j].server = calls[i].server
                    /\ (calls[i].outcome # "none") => earlier[r][j].outcome = calls[i].outcome

\* the second run of bulkdns -f -c 2 over two domains and two resolvers has
\* both outcomes, which differ from each other, as the first run had them
C14_Witness ==
    /\ Len(earlier) = 1
    /\ Len(earlier[1]) = 2
    /\ fast
    /\ concurrent = 2
    /\ Len(resolvers) = 2
    /\ Len(calls) = 2
    /\ calls[1].outcome # "none"
    /\ calls[2].outcome # "none"
    /\ calls[1].outcome # calls[2].outcome
    /\ oracle[<<1, resolvers[1]>>] # oracle[<<1, resolvers[2]>>]

====
